---- MODULE Spec2Model ----
(***************************************************************************)
(* The self-learning knowledge base of S-SAFE: the two pattern documents   *)
(* (scam_patterns.toon / positive_patterns.toon), the store functions of   *)
(* backend/toon/toon_manager.py and the TOONLearningAgent of               *)
(* backend/agents/toon_learning_agent.py.                                  *)
(*                                                                         *)
(* Every request handler of backend/main.py is an `async def` with a       *)
(* synchronous body, so inside one server process the operations run one   *)
(* after the other.  Concurrency comes from several server processes       *)
(* (uvicorn workers, launch.py next to streamlit_app.py) that share the    *)
(* two files but each own their module globals (SCHEMA).  A process is     *)
(* therefore sequential, and the processes interleave at file operations:  *)
(* a read (open 'r' + json.load), the truncating open(path, 'w'), and the  *)
(* json.dump + close that makes the new content visible.                   *)
(***************************************************************************)
EXTENDS Integers, Sequences, FiniteSets, TLC

(* ------------------------------ bounds --------------------------------- *)
MaxOps == 2
MaxFaults == 1
\* longest red_flags and behaviors lists handed to the Decision agent
MaxFlags == 3
MaxBehaviors == 2

\* two server processes (two pipeline runs / callers at a time)
Procs == {"run1", "run2"}

(* ------------------------- toon_manager.py ----------------------------- *)
SCAM_FILE == "scam"
POSITIVE_FILE == "positive"
Paths == {SCAM_FILE, POSITIVE_FILE}

\* the keys of the SCHEMA dict
SchemaKeys ==
  {"legitimate_keywords", "suspicious_keywords", "verified_domains",
   "fake_domains", "behaviors"}

\* strings that requests carry
Val == {"bonus", "urgent"}

\* request inputs of update_pattern
FileTypes == {"scam", "positive", "backup"}
UpdateKeys == {"fake_domains", "admin_notes"}

EmptyDoc == [k \in {} |-> <<>>]

\* file content: a JSON object (ok) or an empty / cut-off file
WellFormed(d) == [ok |-> TRUE, d |-> d]
Malformed == [ok |-> FALSE, d |-> EmptyDoc]

Range(s) == {s[i] : i \in DOMAIN s}

NoDup(s) == \A i, j \in DOMAIN s : s[i] = s[j] => i = j

VARIABLES
  file,      \* file[path]: content of the document on disk
  SCHEMA,    \* SCHEMA[p]: the module-global default lists of process p
  pc,        \* pc[p]: position of process p inside its current operation
  arg,       \* arg[p]: the request the current / last operation was called with
  data,      \* data[p]: the dicts the operation holds in memory
  res,       \* res[p]: what the last completed operation returned
  before,    \* before[p]: the files when p's current / last apply_update started
  hit,       \* hit[p]: an I/O error struck the current / last operation
  nops,      \* operations started so far
  faults,    \* I/O errors injected so far
  payload,   \* the extraction and research results of the pipeline run
  step,      \* the statement of run_full_analysis the pipeline run is at
  out,       \* the locals of run_full_analysis assigned so far
  cache,     \* OnlineResearchAgent.cache of the process the run is in
  db,        \* the tables of ssafe.db the chat endpoints read and write
  req        \* the last request a chat endpoint served, and its outcome

vars == <<file, SCHEMA, pc, arg, data, res, before, hit, nops, faults, payload,
          step, out, cache, db, req>>

\* what only the chat endpoints of main.py touch
web == <<db, req>>

\* what the knowledge-base operations never touch
pipeline == <<payload, step, out, cache, web>>

\* what the steps of a pipeline run never touch
kb == <<file, SCHEMA, pc, arg, data, res, before, hit, nops, faults, payload,
        web>>

\* the content init_defaults writes, each shipped list shortened to one entry
scam_defaults ==
  [k \in SchemaKeys |->
     CASE k = "suspicious_keywords" -> <<"kindly">>
       [] k = "fake_domains" -> <<"@workfromhome.cash">>
       [] k = "behaviors" -> <<"no interview">>
       [] OTHER -> <<>>]

positive_defaults ==
  [k \in SchemaKeys |->
     CASE k = "verified_domains" -> <<"@google.com">>
       [] k = "legitimate_keywords" -> <<"offer letter">>
       [] k = "behaviors" -> <<"no upfront pay">>
       [] OTHER -> <<>>]

NoArg == [op |-> "none"]
\* extraction = {} and research = {}: every .get falls back to its default
NoPayload ==
  [extraction |-> [fees |-> <<>>, red_flags |-> <<>>, behaviors |-> <<>>],
   research |-> [scam_found |-> FALSE, trust_assessment |-> "unknown",
                 online_presence |-> "none", sources |-> <<>>,
                 suspicious_domains |-> <<>>, professional_emails |-> <<>>,
                 trusted |-> <<>>]]
NoRes == [op |-> "none", status |-> "none"]
NoData == [f \in Paths |-> EmptyDoc]
NoFiles == [f \in Paths |-> [ok |-> FALSE, d |-> [k \in {} |-> <<>>]]]

\* create_tables: the chats and messages tables exist and are empty, no
\* row of analysis_history or uploaded_files is written yet
NoRows == [chats |-> <<>>, messages |-> <<>>, analysis_history |-> 0,
           uploaded_files |-> 0]
NoRequest == [endpoint |-> "none"]

InitKB ==
  /\ db = NoRows
  /\ req = NoRequest
  /\ file = [f \in Paths |->
               IF f = SCAM_FILE THEN WellFormed(scam_defaults)
                                ELSE WellFormed(positive_defaults)]
  /\ SCHEMA = [p \in Procs |-> [k \in SchemaKeys |-> <<>>]]
  /\ pc = [p \in Procs |-> "idle"]
  /\ arg = [p \in Procs |-> NoArg]
  /\ data = [p \in Procs |-> NoData]
  /\ res = [p \in Procs |-> NoRes]
  /\ before = [p \in Procs |-> NoFiles]
  /\ hit = [p \in Procs |-> FALSE]
  /\ nops = 0
  /\ faults = 0

\* a dict without keys
NoDict == [k \in {} |-> <<>>]

\* the locals of run_full_analysis: have names the ones assigned so far,
\* failed the stages whose except branch ran; text is the set of the known
\* phrases the submitted text contains, scam_patterns what the Pattern
\* agent holds between its two reads, saved the row for db.save_analysis
NoOut ==
  [text |-> {}, have |-> {}, failed |-> {},
   extraction_data |-> NoDict, research_data |-> NoDict,
   scam_patterns |-> NoDict, pat |-> NoDict, sal |-> NoDict,
   toon_proposal |-> NoDict, dec |-> NoDict, report |-> NoDict,
   saved |-> NoDict]

\* no pipeline run is under way: run_full_analysis has no locals yet
NoRun == step = "none" /\ out = NoDict /\ cache = NoDict

Init == InitKB /\ payload = NoPayload /\ NoRun

\* a request is accepted while the process is between operations; the two
\* processes are interchangeable, and run1 names the one that is called first
CanStart(p) == pc[p] = "idle" /\ nops < MaxOps /\ (p = "run2" => nops > 0)

Begin(p, a) ==
  /\ UNCHANGED pipeline
  /\ arg' = [arg EXCEPT ![p] = a]
  /\ before' = [before EXCEPT ![p] = IF a.op = "apply_update" THEN file
                                                               ELSE NoFiles]
  /\ nops' = nops + 1

\* _load_toon(path): data = SCHEMA.copy(), then every schema key the file
\* holds replaces the default.  SCHEMA.copy() is shallow: the keys that are
\* not replaced still refer to the list objects of SCHEMA itself.
\* json.load of a file raises: an I/O error, or the content is no JSON
ReadFails(c, rf) == rf \/ ~c.ok

Loaded(c, rf) == IF ReadFails(c, rf) THEN {} ELSE DOMAIN c.d \cap SchemaKeys

load_toon(c, schema, rf) ==
  [k \in SchemaKeys |->
     IF k \in Loaded(c, rf) THEN c.d[k] ELSE schema[k]]

(* ------------------------------ I/O ------------------------------------ *)
\* an I/O call either works or, while the budget lasts, raises
IOFails(b) == b \in BOOLEAN /\ (b => faults < MaxFaults)

Charge(p, b) ==
  /\ faults' = IF b THEN faults + 1 ELSE faults
  /\ hit' = [hit EXCEPT ![p] = @ \/ b]

\* the operation of p returns r
Finish(p, r) ==
  /\ pc' = [pc EXCEPT ![p] = "idle"]
  /\ res' = [res EXCEPT ![p] = r]
  /\ data' = [data EXCEPT ![p] = NoData]

PathOf(file_type) == IF file_type = "scam" THEN SCAM_FILE ELSE POSITIVE_FILE

(* ---------------------- toon_manager.update_pattern -------------------- *)
\* line 61: key in SCHEMA
ValidKey_any(key) == TRUE

ValidKey(key) == key \in SchemaKeys

\* line 68: value in data[key]
Present_never(value, lst) == FALSE

Present(value, lst) == value \in Range(lst)

\* data[key]; the key check has made sure the key is there
Lookup(d, key) == IF key \in DOMAIN d THEN d[key] ELSE <<>>

Store(d, key, lst) == [k \in DOMAIN d \cup {key} |-> IF k = key THEN lst ELSE d[k]]

\* lines 61-69: the key check, the load and the append-if-absent.  The list
\* appended to is SCHEMA's own list when the file did not supply the key.
update_pattern(p, file_type, key, value) ==
  /\ CanStart(p)
  /\ Begin(p, [op |-> "update_pattern", path |-> PathOf(file_type),
               key |-> key, value |-> value])
  /\ IF ~ValidKey(key)
       THEN /\ Finish(p, [op |-> "update_pattern", status |-> "rejected"])
            /\ hit' = [hit EXCEPT ![p] = FALSE]
            /\ UNCHANGED <<file, SCHEMA, faults>>
       ELSE \E rf \in BOOLEAN :
            /\ IOFails(rf)
            /\ faults' = IF rf THEN faults + 1 ELSE faults
            /\ hit' = [hit EXCEPT ![p] = rf]
            /\ LET path == PathOf(file_type)
                   d == load_toon(file[path], SCHEMA[p], rf)
                   appended == Append(Lookup(d, key), value)
               IN IF Present(value, Lookup(d, key))
                    THEN /\ Finish(p, [op |-> "update_pattern",
                                       status |-> "present"])
                         /\ UNCHANGED <<file, SCHEMA>>
                    ELSE /\ pc' = [pc EXCEPT ![p] = "up_open"]
                         /\ data' = [data EXCEPT ![p] =
                                [NoData EXCEPT ![path] =
                                   Store(d, key, appended)]]
                         /\ SCHEMA' =
                              IF key \in Loaded(file[path], rf)
                                THEN SCHEMA
                                ELSE [SCHEMA EXCEPT ![p] =
                                        Store(@, key, appended)]
                         /\ UNCHANGED <<file, res>>

\* _save_toon, line 41: open(path, "w") empties the file
up_open(p) ==
  /\ pc[p] = "up_open"
  /\ \E wf \in BOOLEAN :
       /\ IOFails(wf)
       /\ Charge(p, wf)
       /\ IF wf
            THEN /\ Finish(p, [op |-> "update_pattern", status |-> "logged"])
                 /\ UNCHANGED file
            ELSE /\ file' = [file EXCEPT ![arg[p].path] = Malformed]
                 /\ pc' = [pc EXCEPT ![p] = "up_write"]
                 /\ UNCHANGED <<res, data>>
  /\ UNCHANGED <<SCHEMA, arg, before, nops, pipeline>>

\* _save_toon, line 42: json.dump and the close that flushes it
up_write(p) ==
  /\ pc[p] = "up_write"
  /\ \E wf \in BOOLEAN :
       /\ IOFails(wf)
       /\ Charge(p, wf)
       /\ IF wf
            THEN /\ Finish(p, [op |-> "update_pattern", status |-> "logged"])
                 /\ UNCHANGED file
            ELSE /\ file' = [file EXCEPT ![arg[p].path] =
                                WellFormed(data[p][arg[p].path])]
                 /\ Finish(p, [op |-> "update_pattern", status |-> "saved"])
  /\ UNCHANGED <<SCHEMA, arg, before, nops, pipeline>>

\* main.py /save_toon: a request with a missing (falsy) field raises the
\* HTTPException, which the handler's own except turns into an error reply;
\* anything else goes to update_pattern
save_toon(p, file_type, key, value) ==
  IF file_type = "" \/ key = "" \/ value = ""
    THEN /\ CanStart(p)
         /\ Begin(p, [op |-> "save_toon"])
         /\ Finish(p, [op |-> "save_toon", status |-> "error"])
         /\ hit' = [hit EXCEPT ![p] = FALSE]
         /\ UNCHANGED <<file, SCHEMA, faults>>
    ELSE update_pattern(p, file_type, key, value)

\* get_scam_patterns / get_positive_patterns: one _load_toon
get_patterns(p, path) ==
  /\ CanStart(p)
  /\ Begin(p, [op |-> "get_patterns", path |-> path])
  /\ \E rf \in BOOLEAN :
       /\ IOFails(rf)
       /\ faults' = IF rf THEN faults + 1 ELSE faults
       /\ hit' = [hit EXCEPT ![p] = rf]
       /\ Finish(p, [op |-> "get_patterns", status |-> "ok",
                     readOk |-> ~ReadFails(file[path], rf),
                     data |-> load_toon(file[path], SCHEMA[p], rf)])
  /\ UNCHANGED <<file, SCHEMA>>

(* ----------------------- toon_learning_agent.py ------------------------ *)
\* TOONLearningAgent._load_toon: both reads in one try; any exception gives
\* status "error" with two empty dicts
Learner_load_toon(cs, cp, rfs, rfp) ==
  IF ReadFails(cs, rfs) \/ ReadFails(cp, rfp)
    THEN [status |-> "error", scam |-> EmptyDoc, positive |-> EmptyDoc]
    ELSE [status |-> "success", scam |-> cs.d, positive |-> cp.d]

\* for x in new: if x not in lst: lst.append(x)
MergeList_nocheck(lst, new) == lst \o new

RECURSIVE MergeList(_, _)
MergeList(lst, new) ==
  IF new = <<>> THEN lst
  ELSE MergeList(IF Head(new) \in Range(lst) THEN lst
                                             ELSE Append(lst, Head(new)),
                 Tail(new))

\* if proposals.get(name): doc.setdefault(key, []); merge
MergeInto(doc, key, new) ==
  IF new = <<>> THEN doc
  ELSE [k \in DOMAIN doc \cup {key} |->
          IF k = key
            THEN MergeList(IF key \in DOMAIN doc THEN doc[key] ELSE <<>>, new)
            ELSE doc[k]]

\* _apply_update lines 240-264
MergeProposal(scam, positive, pr) ==
  [scam |-> MergeInto(MergeInto(MergeInto(scam,
                "suspicious_keywords", pr.new_scam_keywords),
                "fake_domains", pr.new_scam_domains),
                "behaviors", pr.new_scam_behaviors),
   positive |-> MergeInto(positive, "verified_domains", pr.new_safe_domains)]

\* proposals.get("should_apply", False)
ShouldApply_default_true(pr) == pr.should_apply # "false"

ShouldApply(pr) == pr.should_apply = "true"

Proposal(kw, dom, beh, skw, sdom, conf, sa) ==
  [new_scam_keywords |-> kw, new_scam_domains |-> dom,
   new_scam_behaviors |-> beh, new_safe_keywords |-> skw,
   new_safe_domains |-> sdom, confidence |-> conf, should_apply |-> sa]

\* payloads of apply_update requests (confidence in hundredths)
Proposals ==
  { Proposal(<<"bonus">>, <<>>, <<>>, <<>>, <<>>, 90, "true"),
    Proposal(<<"urgent", "kindly", "urgent">>, <<"bonus">>, <<"bonus">>,
             <<"urgent">>, <<"bonus">>, 100, "true"),
    Proposal(<<"bonus">>, <<>>, <<>>, <<>>, <<"urgent">>, 90, "false"),
    Proposal(<<"urgent">>, <<"urgent">>, <<>>, <<>>, <<>>, 65, "absent") }

\* action "load": first read
Learner_load(p) ==
  /\ CanStart(p)
  /\ Begin(p, [op |-> "load"])
  /\ \E rf \in BOOLEAN :
       /\ IOFails(rf)
       /\ faults' = IF rf THEN faults + 1 ELSE faults
       /\ hit' = [hit EXCEPT ![p] = rf]
       /\ IF ReadFails(file[SCAM_FILE], rf)
            THEN Finish(p, [op |-> "load"] @@
                     Learner_load_toon(file[SCAM_FILE], file[POSITIVE_FILE],
                                       rf, FALSE))
            ELSE /\ pc' = [pc EXCEPT ![p] = "ll_pos"]
                 /\ data' = [data EXCEPT ![p][SCAM_FILE] = file[SCAM_FILE].d]
                 /\ UNCHANGED res
  /\ UNCHANGED <<file, SCHEMA>>

\* action "load": second read
ll_pos(p) ==
  /\ pc[p] = "ll_pos"
  /\ \E rf \in BOOLEAN :
       /\ IOFails(rf)
       /\ Charge(p, rf)
       /\ Finish(p, [op |-> "load"] @@
            Learner_load_toon(WellFormed(data[p][SCAM_FILE]),
                              file[POSITIVE_FILE], FALSE, rf))
  /\ UNCHANGED <<file, SCHEMA, arg, before, nops, pipeline>>

\* _apply_update lines 226-236: the should_apply gate and the first read
apply_update(p, pr) ==
  /\ CanStart(p)
  /\ Begin(p, [op |-> "apply_update", pr |-> pr])
  /\ IF ~ShouldApply(pr)
       THEN /\ Finish(p, [op |-> "apply_update", status |-> "skipped"])
            /\ hit' = [hit EXCEPT ![p] = FALSE]
            /\ UNCHANGED <<file, SCHEMA, faults>>
       ELSE \E rf \in BOOLEAN :
            /\ IOFails(rf)
            /\ faults' = IF rf THEN faults + 1 ELSE faults
            /\ hit' = [hit EXCEPT ![p] = rf]
            /\ IF ReadFails(file[SCAM_FILE], rf)
                 THEN /\ pc' = [pc EXCEPT ![p] = "ap_open_scam"]
                      /\ data' = [data EXCEPT ![p] =
                                    MergeProposal(EmptyDoc, EmptyDoc, pr)]
                 ELSE /\ pc' = [pc EXCEPT ![p] = "ap_load_pos"]
                      /\ data' = [data EXCEPT ![p][SCAM_FILE] =
                                    file[SCAM_FILE].d]
            /\ UNCHANGED <<file, SCHEMA, res>>

\* the second read of _load_toon, then the merge
ap_load_pos(p) ==
  /\ pc[p] = "ap_load_pos"
  /\ \E rf \in BOOLEAN :
       /\ IOFails(rf)
       /\ Charge(p, rf)
       /\ LET cur == Learner_load_toon(WellFormed(data[p][SCAM_FILE]),
                                       file[POSITIVE_FILE], FALSE, rf)
          IN data' = [data EXCEPT ![p] =
                        MergeProposal(cur.scam, cur.positive, arg[p].pr)]
  /\ pc' = [pc EXCEPT ![p] = "ap_open_scam"]
  /\ UNCHANGED <<file, SCHEMA, arg, res, before, nops, pipeline>>

\* open(f, 'w') of lines 267 and 270: the file is emptied, or open raises
ap_open(p, f, here, next) ==
  /\ pc[p] = here
  /\ \E wf \in BOOLEAN :
       /\ IOFails(wf)
       /\ Charge(p, wf)
       /\ IF wf
            THEN /\ Finish(p, [op |-> "apply_update", status |-> "error"])
                 /\ UNCHANGED file
            ELSE /\ file' = [file EXCEPT ![f] = Malformed]
                 /\ pc' = [pc EXCEPT ![p] = next]
                 /\ UNCHANGED <<res, data>>
  /\ UNCHANGED <<SCHEMA, arg, before, nops, pipeline>>

\* json.dump of lines 268 and 271 and the close; after the second one the
\* handler returns "success"
ap_write(p, f, here, next) ==
  /\ pc[p] = here
  /\ \E wf \in BOOLEAN :
       /\ IOFails(wf)
       /\ Charge(p, wf)
       /\ IF wf
            THEN /\ Finish(p, [op |-> "apply_update", status |-> "error"])
                 /\ UNCHANGED file
            ELSE /\ file' = [file EXCEPT ![f] = WellFormed(data[p][f])]
                 /\ IF next = "idle"
                      THEN Finish(p, [op |-> "apply_update",
                                      status |-> "success"])
                      ELSE /\ pc' = [pc EXCEPT ![p] = next]
                           /\ UNCHANGED <<res, data>>
  /\ UNCHANGED <<SCHEMA, arg, before, nops, pipeline>>

ap_open_scam(p) == ap_open(p, SCAM_FILE, "ap_open_scam", "ap_write_scam")
ap_write_scam(p) == ap_write(p, SCAM_FILE, "ap_write_scam", "ap_open_pos")
ap_open_pos(p) == ap_open(p, POSITIVE_FILE, "ap_open_pos", "ap_write_pos")
ap_write_pos(p) == ap_write(p, POSITIVE_FILE, "ap_write_pos", "idle")

Next ==
  \E p \in Procs :
    \/ \E ft \in FileTypes, k \in UpdateKeys, v \in Val :
         update_pattern(p, ft, k, v)
    \/ \E ft \in FileTypes \cup {""}, k \in UpdateKeys \cup {""},
          v \in Val \cup {""} :
         save_toon(p, ft, k, v)
    \/ up_open(p)
    \/ up_write(p)
    \/ \E f \in Paths : get_patterns(p, f)
    \/ Learner_load(p)
    \/ ll_pos(p)
    \/ \E pr \in Proposals : apply_update(p, pr)
    \/ ap_load_pos(p)
    \/ ap_open_scam(p)
    \/ ap_write_scam(p)
    \/ ap_open_pos(p)
    \/ ap_write_pos(p)

Spec == Init /\ [][Next]_vars

(* --------------------------- propose_update ---------------------------- *)
\* the extraction and research results a pipeline run can hand over; an
\* e-mail address is the pair of its parts around the '@'
Extractions ==
  [fees : {<<>>, <<"registration_fee">>},
   red_flags : {<<>>, <<"kindly">>, <<"bonus", "kindly", "urgent">>},
   behaviors : {<<>>, <<"urgent language">>}]

Researches ==
  [scam_found : BOOLEAN,
   trust_assessment : {"high_trust", "moderate_trust", "low_trust",
                       "high_risk", "unknown"},
   online_presence : {"weak", "moderate", "strong"},
   sources : {<<>>, <<"u1", "u2", "u3">>, <<"u1", "u2", "u3", "u4">>},
   suspicious_domains : {<<>>, <<"jobs.cash">>},
   professional_emails : {<<>>, << <<"hr", "acme.com">> >>},
   trusted : {<<>>, <<"acme.com">>}]

InitPropose ==
  /\ InitKB
  /\ payload \in [extraction : Extractions, research : Researches]
  /\ NoRun

\* self.CONFIDENCE_THRESHOLD = 0.7, in hundredths
CONFIDENCE_THRESHOLD_low == 70 - 10

CONFIDENCE_THRESHOLD == 70

Min_nocap(a, b) == a

Min(a, b) == IF a < b THEN a ELSE b

\* _is_likely_scam
is_likely_scam(extraction, research) ==
  \/ Len(extraction.fees) > 0 /\ Len(extraction.red_flags) > 2
  \/ research.scam_found
  \/ research.trust_assessment = "high_risk"

\* _is_likely_safe
is_likely_safe_any_presence(research) ==
  research.trust_assessment \in {"high_trust", "moderate_trust"}

is_likely_safe(research) ==
  /\ research.trust_assessment \in {"high_trust", "moderate_trust"}
  /\ research.online_presence = "strong"

RECURSIVE Without(_, _)
Without(lst, seen) ==
  IF lst = <<>> THEN <<>>
  ELSE IF Head(lst) \in seen THEN Without(Tail(lst), seen)
       ELSE <<Head(lst)>> \o Without(Tail(lst), seen)

\* _extract_scam_patterns; cur is what self._load_toon() returned
extract_scam_patterns(extraction, research, cur) ==
  [new_scam_keywords |->
     Without(extraction.red_flags,
             IF "suspicious_keywords" \in DOMAIN cur.scam
               THEN Range(cur.scam["suspicious_keywords"]) ELSE {}),
   new_scam_domains |-> research.suspicious_domains,
   new_scam_behaviors |-> extraction.behaviors]

RECURSIVE EmailDomains(_)
EmailDomains(emails) ==
  IF emails = <<>> THEN <<>>
  ELSE (IF Len(Head(emails)) > 1 THEN <<Head(emails)[2]>> ELSE <<>>)
       \o EmailDomains(Tail(emails))

\* _extract_safe_patterns
extract_safe_patterns(extraction, research) ==
  [new_safe_keywords |-> <<>>,
   new_safe_domains |->
     EmailDomains(research.professional_emails) \o research.trusted]

\* _calculate_confidence, in hundredths (every sum the float code can
\* form compares with 0.7 and 1.0 as the exact sum does)
calculate_confidence(research) ==
  Min((CASE research.online_presence = "strong" -> 30
         [] research.online_presence = "moderate" -> 15
         [] OTHER -> 0)
      + (IF research.scam_found THEN 40 ELSE 0)
      + Min(Len(research.sources) * 5, 20)
      + (CASE research.trust_assessment = "high_trust" -> 20
           [] research.trust_assessment = "high_risk" -> 30
           [] OTHER -> 0),
      100)

\* _has_sufficient_evidence
has_sufficient_evidence(pr) ==
  \/ Len(pr.new_scam_keywords) > 0
  \/ Len(pr.new_scam_domains) > 0
  \/ Len(pr.new_safe_keywords) > 0
  \/ Len(pr.new_safe_domains) > 0

NoPatterns ==
  [new_scam_keywords |-> <<>>, new_scam_domains |-> <<>>,
   new_scam_behaviors |-> <<>>, new_safe_keywords |-> <<>>,
   new_safe_domains |-> <<>>]

\* _propose_update lines 85-110
proposal_of(extraction, research, cur) ==
  LET found == IF is_likely_scam(extraction, research)
                 THEN extract_scam_patterns(extraction, research, cur) @@ NoPatterns
               ELSE IF is_likely_safe(research)
                 THEN extract_safe_patterns(extraction, research) @@ NoPatterns
               ELSE NoPatterns
      conf == calculate_confidence(research)
  IN found @@
     [confidence |-> conf,
      should_apply |-> IF conf >= CONFIDENCE_THRESHOLD
                            /\ has_sufficient_evidence(found)
                         THEN "true" ELSE "false"]

\* action "propose_update" on the run's extraction and research; the
\* knowledge base is read only for a likely scam
propose_update(p) ==
  /\ CanStart(p)
  /\ Begin(p, [op |-> "propose_update"])
  /\ \E rf \in BOOLEAN :
       /\ IOFails(rf)
       /\ rf => is_likely_scam(payload.extraction, payload.research)
       /\ faults' = IF rf THEN faults + 1 ELSE faults
       /\ hit' = [hit EXCEPT ![p] = rf]
       /\ Finish(p, [op |-> "propose_update", status |-> "success",
                     data |-> proposal_of(payload.extraction, payload.research,
                                Learner_load_toon(file[SCAM_FILE],
                                    file[POSITIVE_FILE], rf, FALSE))])
  /\ UNCHANGED <<file, SCHEMA>>

\* action "apply_update" with the proposal propose_update returned
apply_proposed(p) ==
  /\ res[p].op = "propose_update"
  /\ apply_update(p, res[p].data)

NextPropose ==
  \E p \in {"run1"} :
    \/ propose_update(p)
    \/ apply_proposed(p)
    \/ ap_load_pos(p)
    \/ ap_open_scam(p)
    \/ ap_write_scam(p)
    \/ ap_open_pos(p)
    \/ ap_write_pos(p)

SpecPropose == InitPropose /\ [][NextPropose]_vars

\* _apply_update run from the first line to the last with no I/O error and
\* nothing else touching the files in between
ApplyOnce(files, pr) ==
  IF ~ShouldApply(pr) THEN files
  ELSE LET cur == Learner_load_toon(files[SCAM_FILE], files[POSITIVE_FILE],
                                    FALSE, FALSE)
           new == MergeProposal(cur.scam, cur.positive, pr)
       IN [f \in Paths |-> WellFormed(new[f])]

(* ----------------------- decision_agent.py ----------------------------- *)
\* dict.get(k, default)
Get(d, k, default) == IF k \in DOMAIN d THEN d[k] ELSE default

\* lines 34-36
red_flags(extraction) == Get(extraction, "red_flags", <<>>)
fees_mentioned(extraction) == Len(Get(extraction, "fees", <<>>)) > 0
behaviors(extraction) == Get(extraction, "behaviors", <<>>)

\* lines 39-41 and 71
trust_level(research) == Get(research, "trust_assessment", "unknown")
scam_reports(research) ==
  Get(Get(research, "scam_reports", NoDict), "found", FALSE)
personal_emails(research) ==
  Get(Get(research, "email_verification", NoDict), "personal_emails", <<>>)

\* lines 46-47: bool() of the dict of matches
has_scam_patterns(pattern_out) ==
  DOMAIN Get(pattern_out, "scam_matches", NoDict) # {}
has_positive_patterns_as_scam(pattern_out) ==
  DOMAIN Get(pattern_out, "scam_matches", NoDict) # {}

has_positive_patterns(pattern_out) ==
  DOMAIN Get(pattern_out, "positive_matches", NoDict) # {}

\* line 50
salary_risk_default_high(salary_out) == Get(salary_out, "combined_risk", "HIGH")

salary_risk(salary_out) == Get(salary_out, "combined_risk", "LOW")

\* lines 56-58
extraction_signals_minus(extraction) ==
  0 - Len(red_flags(extraction)) * 2
  + (IF fees_mentioned(extraction) THEN 5 ELSE 0)
  + Len(behaviors(extraction))

extraction_signals(extraction) ==
  Len(red_flags(extraction)) * 2
  + (IF fees_mentioned(extraction) THEN 5 ELSE 0)
  + Len(behaviors(extraction))

\* lines 61-66
trust_signal_no_low(trust) ==
  IF trust = "high_risk" THEN 10
  ELSE IF trust = "high_trust" THEN 0 - 5
  ELSE 0

trust_signal(trust) ==
  IF trust = "high_risk" THEN 10
  ELSE IF trust = "low_trust" THEN 5
  ELSE IF trust = "high_trust" THEN 0 - 5
  ELSE 0

\* lines 61-72
research_signals(research) ==
  trust_signal(trust_level(research))
  + (IF scam_reports(research) THEN 8 ELSE 0)
  + (IF Len(personal_emails(research)) > 0 THEN 3 ELSE 0)

\* lines 75-78
pattern_signals(pattern_out) ==
  (IF has_scam_patterns(pattern_out) THEN 5 ELSE 0)
  - (IF has_positive_patterns(pattern_out) THEN 3 ELSE 0)

\* lines 81-84
salary_signals(salary_out) ==
  IF salary_risk(salary_out) = "HIGH" THEN 4
  ELSE IF salary_risk(salary_out) = "MEDIUM" THEN 2
  ELSE 0

\* lines 53-84: risk_score after the last +=
risk_score(pl) ==
  LET r1 == 0 + extraction_signals(pl.extraction)
      r2 == r1 + research_signals(pl.research)
      r3 == r2 + pattern_signals(pl.pattern_out)
  IN r3 + salary_signals(pl.salary_out)

\* lines 87-92
category_strict(risk) ==
  IF risk > 10 THEN "Contains Warning Signs"
  ELSE IF risk <= 2 THEN "Looks Safe"
  ELSE "Needs Verification"

category(risk) ==
  IF risk >= 10 THEN "Contains Warning Signs"
  ELSE IF risk <= 2 THEN "Looks Safe"
  ELSE "Needs Verification"

\* DecisionAgent.handle: the reply, without its texts
DecisionAgent_handle(pl) ==
  [status |-> "ok",
   data |-> [result |-> category(risk_score(pl)),
             red_flags |-> red_flags(pl.extraction),
             trust_level |-> trust_level(pl.research),
             internal_risk_score |-> risk_score(pl)]]

(* ----------------------- research_agent.py ----------------------------- *)
\* `word in s` for the strings of the model: the pairs <<word, s>> with
\* word a proper substring of s, after .lower()
Substrings ==
  {<<"acme", "acme.com">>, <<"google", "google.com">>,
   <<"job", "jobs.cash">>, <<"cash", "jobs.cash">>}

In(word, str) == word = str \/ <<word, str>> \in Substrings

\* company.lower().replace(' ', '')
company_clean(company) ==
  CASE company = "Acme" -> "acme"
    [] company = "Google" -> "google"
    [] company = "Unknown" -> "unknown"
    [] OTHER -> company

\* line 143
personal_domains ==
  {"gmail.com", "yahoo.com", "hotmail.com", "outlook.com", "protonmail.com"}

\* lines 34-38
trusted_domains ==
  {"google.com", "microsoft.com", "amazon.com", "apple.com", "meta.com",
   "netflix.com", "linkedin.com", "tcs.com", "infosys.com", "wipro.com",
   "accenture.com", "deloitte.com"}

\* _mock_company_verification, line 359
known_companies == {"google", "microsoft", "amazon", "tcs", "infosys"}

\* _mock_company_verification
mock_company_verification(company) ==
  IF \E known \in known_companies : In(known, company_clean(company))
    THEN [found |-> TRUE, online_presence |-> "strong",
          sources |-> <<"https://www.company.com">>]
    ELSE [found |-> FALSE, online_presence |-> "weak", sources |-> <<>>]

\* the links of the first n results
Links(n) == [i \in 1..n |-> "link"]

\* _verify_company past the cache, lines 91-127; search is what the search
\* library does during this call: available (the import worked), hits
\* (results of the two queries together), failed (DDGS() raised)
search_company(company, search) ==
  IF ~search.available THEN mock_company_verification(company)
  ELSE IF search.failed
    THEN [found |-> FALSE, online_presence |-> "unknown", sources |-> <<>>]
  ELSE IF search.hits > 0
    THEN [found |-> TRUE,
          online_presence |-> IF search.hits >= 5 THEN "strong"
                                                  ELSE "moderate",
          sources |-> Links(Min(search.hits, 5))]
  ELSE [found |-> FALSE, online_presence |-> "weak", sources |-> <<>>]

\* _verify_company, lines 78-89: the sentinel, then the cache
verify_company_nocache(company, search, known) ==
  IF company = "Unknown"
    THEN [found |-> FALSE, online_presence |-> "none", sources |-> <<>>]
  ELSE search_company(company, search)

verify_company(company, search, known) ==
  IF company = "Unknown"
    THEN [found |-> FALSE, online_presence |-> "none", sources |-> <<>>]
  ELSE IF company \in DOMAIN known THEN known[company]
  ELSE search_company(company, search)

\* _verify_emails; an e-mail address is <<local part, domain>>
verify_emails(emails, domains, company) ==
  LET personal(e) == e[2] \in personal_domains
      professional(e) == e[2] \notin personal_domains
      matches(e) == In(company_clean(company), e[2])
      suspicious(d) ==
        \E word \in {"job", "hire", "work", "earn", "cash"} : In(word, d)
  IN [emails_found |-> Len(emails),
      domain_matches |-> SelectSeq(emails, matches),
      suspicious_domains |-> SelectSeq(domains, suspicious),
      personal_emails |-> SelectSeq(emails, personal),
      professional_emails |-> SelectSeq(emails, professional)]

\* _verify_salary, line 180, times twelve: amount / 12 is a float division,
\* and twelve times the monthly amount is the integer it is compared by
monthly_amount12_no_period(salary) == Get(salary, "amount", 0) * 12

monthly_amount12(salary) ==
  IF Get(salary, "period", "month") = "month"
    THEN Get(salary, "amount", 0) * 12
    ELSE Get(salary, "amount", 0)

\* _verify_salary
verify_salary(salary) ==
  IF ~Get(salary, "mentioned", FALSE)
    THEN [realistic |-> "unknown", monthly_equivalent12 |-> 0]
    ELSE [realistic |->
            IF monthly_amount12(salary) < 5000 * 12 THEN "suspiciously_low"
            ELSE IF monthly_amount12(salary) > 100000 * 12
              THEN "suspiciously_high"
            ELSE IF monthly_amount12(salary) > 50000 * 12
              THEN "verify_required"
            ELSE "realistic",
          monthly_equivalent12 |-> monthly_amount12(salary)]

\* _check_scam_reports; search.scam_hits: results whose body names a scam
check_scam_reports(company, search) ==
  IF company # "Unknown" /\ search.available /\ ~search.failed
       /\ search.scam_hits > 0
    THEN [found |-> TRUE, sources |-> Links(Min(search.scam_hits, 3))]
    ELSE [found |-> FALSE, sources |-> <<>>]

\* _analyze_domains
analyze_domains(domains) ==
  LET trusted(d) == \E t \in trusted_domains : In(t, d)
      suspicious(d) ==
        /\ ~trusted(d)
        /\ \E word \in {"job", "hire", "work", "earn", "cash", "money"} :
             In(word, d)
      unknown(d) == ~trusted(d) /\ ~suspicious(d)
  IN [total_domains |-> Len(domains),
      trusted |-> SelectSeq(domains, trusted),
      suspicious |-> SelectSeq(domains, suspicious),
      unknown |-> SelectSeq(domains, unknown)]

\* _assess_trust, lines 278-311
trust_score_no_match(research) ==
  LET company_presence ==
        Get(research.company_verification, "online_presence", "none")
      email_ver == research.email_verification
      salary_check == Get(research.salary_verification, "realistic", "unknown")
  IN (CASE company_presence = "strong" -> 3
        [] company_presence = "moderate" -> 1
        [] company_presence = "weak" -> 0 - 1
        [] OTHER -> 0)
     + (IF Len(email_ver.professional_emails) > 0 THEN 2 ELSE 0)
     - (IF Len(email_ver.personal_emails) > 0 THEN 1 ELSE 0)
     - (IF research.scam_reports.found THEN 5 ELSE 0)
     + (IF Len(research.domain_analysis.trusted) > 0 THEN 3 ELSE 0)
     - (IF Len(research.domain_analysis.suspicious) > 0 THEN 2 ELSE 0)
     + (CASE salary_check = "realistic" -> 1
          [] salary_check \in {"suspiciously_low", "suspiciously_high"}
               -> 0 - 2
          [] OTHER -> 0)

trust_score(research) ==
  LET company_presence ==
        Get(research.company_verification, "online_presence", "none")
      email_ver == research.email_verification
      salary_check == Get(research.salary_verification, "realistic", "unknown")
  IN (CASE company_presence = "strong" -> 3
        [] company_presence = "moderate" -> 1
        [] company_presence = "weak" -> 0 - 1
        [] OTHER -> 0)
     + (IF Len(email_ver.professional_emails) > 0 THEN 2 ELSE 0)
     - (IF Len(email_ver.personal_emails) > 0 THEN 1 ELSE 0)
     + (IF Len(email_ver.domain_matches) > 0 THEN 2 ELSE 0)
     - (IF research.scam_reports.found THEN 5 ELSE 0)
     + (IF Len(research.domain_analysis.trusted) > 0 THEN 3 ELSE 0)
     - (IF Len(research.domain_analysis.suspicious) > 0 THEN 2 ELSE 0)
     + (CASE salary_check = "realistic" -> 1
          [] salary_check \in {"suspiciously_low", "suspiciously_high"}
               -> 0 - 2
          [] OTHER -> 0)

\* _assess_trust, lines 314-321
assess_trust(research) ==
  IF trust_score(research) >= 5 THEN "high_trust"
  ELSE IF trust_score(research) >= 2 THEN "moderate_trust"
  ELSE IF trust_score(research) >= 0 THEN "low_trust"
  ELSE "high_risk"

\* OnlineResearchAgent.handle, without the summary text
research_handle(extraction, search, known) ==
  LET company == Get(extraction, "company_name", "Unknown")
      emails == Get(extraction, "emails", <<>>)
      domains == Get(extraction, "domains", <<>>)
      salary == Get(extraction, "salary", NoDict)
      research ==
        [company_verification |-> verify_company(company, search, known),
         email_verification |-> verify_emails(emails, domains, company),
         salary_verification |-> verify_salary(salary),
         scam_reports |-> check_scam_reports(company, search),
         domain_analysis |-> analyze_domains(domains),
         trust_assessment |-> "pending"]
  IN [status |-> "success",
      data |-> [research EXCEPT !.trust_assessment = assess_trust(research)]]

(* --------------------- extraction / pattern agents --------------------- *)
\* ExtractionAgent.red_flags, shortened
red_flag_keywords ==
  <<"kindly", "act fast", "bitcoin", "limited slots", "wire transfer">>

\* _detect_red_flags: the keywords the text contains, in list order
detect_red_flags(text) ==
  LET found(flag) == flag \in text
  IN SelectSeq(red_flag_keywords, found)

\* _detect_behaviors: the tags the structural checks give (parsed), then
\* the one the phrase 'kindly' gives
detect_behaviors(text, tags) ==
  tags \o (IF "kindly" \in text THEN <<"unprofessional language">> ELSE <<>>)

\* ExtractionAgent.handle; parsed is what the regular expressions find
extraction_handle(text, parsed) ==
  [status |-> "success",
   data |-> [company_name |-> parsed.company_name,
             emails |-> parsed.emails,
             domains |-> parsed.domains,
             salary |-> parsed.salary,
             fees |-> parsed.fees,
             red_flags |-> detect_red_flags(text),
             behaviors |-> detect_behaviors(text, parsed.tags)]]

\* PatternMatchingAgent._check_matches
check_matches(text, patterns) ==
  LET found(cat) ==
        LET hit_kw(keyword) == keyword \in text
        IN SelectSeq(patterns[cat], hit_kw)
  IN [cat \in {c \in DOMAIN patterns : found(c) # <<>>} |-> found(cat)]

\* PatternMatchingAgent.handle, without the reasoning text
pattern_handle(text, scam_patterns, positive_patterns) ==
  [status |-> "ok",
   data |-> [scam_matches |-> check_matches(text, scam_patterns),
             positive_matches |-> check_matches(text, positive_patterns),
             pattern_matches |-> check_matches(text, scam_patterns)]]

\* the Salary Plausibility Checker: risk is SAFE, MEDIUM or HIGH
SalaryRisks == {"SAFE", "MEDIUM", "HIGH"}

salary_handle(risk) == [status |-> "ok", data |-> [combined_risk |-> risk]]

(* ------------------------------ core.py -------------------------------- *)
\* the server process the pipeline run is in
RunProc == "run1"

\* run_full_analysis, statements 1) to 7) and the report, in program order;
\* the Pattern agent reads its two documents one after the other
Stages_learner_last ==
  <<"preprocess", "extraction", "research", "pattern", "pattern_positive",
    "salary", "decision", "toon_learning", "report">>

Stages ==
  <<"preprocess", "extraction", "research", "pattern", "pattern_positive",
    "salary", "toon_learning", "decision", "report">>

NextStep(stage) ==
  LET i == CHOOSE j \in DOMAIN Stages : Stages[j] = stage
  IN IF i < Len(Stages) THEN Stages[i + 1] ELSE "returned"

\* the except branch of a stage: lines 58-60 and 122-124 return an error,
\* every other one assigns the stage's empty substitute
on_failure_abort(stage) ==
  IF stage \in {"preprocess", "extraction", "decision"} THEN "abort"
                                                         ELSE "substitute"

on_failure(stage) ==
  IF stage \in {"preprocess", "decision"} THEN "abort" ELSE "substitute"

\* a stage of the run: its try block assigns value to local, or it raises
\* (fail) and the except branch runs
Stage(stage, local, fail, value, substitute) ==
  /\ step = stage
  /\ IF fail /\ on_failure(stage) = "abort"
       THEN /\ out' = [out EXCEPT !.report = [error |-> stage],
                                  !.failed = @ \cup {stage}]
            /\ step' = "returned"
       ELSE /\ out' = [out EXCEPT ![local] = IF fail THEN substitute
                                                      ELSE value,
                                  !.have = @ \cup {local},
                                  !.failed = IF fail THEN @ \cup {stage}
                                                     ELSE @]
            /\ step' = NextStep(stage)

\* 1) lines 53-60; the cleaned text contains what the text contains
preprocess ==
  /\ \E fail \in BOOLEAN :
       Stage("preprocess", "text", fail, out.text, out.text)
  /\ UNCHANGED <<kb, cache>>

\* 2) lines 63-69
extraction(parsed) ==
  /\ \E fail \in BOOLEAN :
       Stage("extraction", "extraction_data", fail,
             Get(extraction_handle(out.text, parsed), "data", NoDict),
             NoDict)
  /\ UNCHANGED <<kb, cache>>

\* self.cache after _verify_company, lines 86-89 and 130
cache_after(company, search, known) ==
  IF company = "Unknown" \/ company \in DOMAIN known THEN known
  ELSE (company :> search_company(company, search)) @@ known

\* 3) lines 72-78; a handler that raises may have filled the cache before
research(search) ==
  /\ \E fail \in BOOLEAN, wrote \in BOOLEAN :
       /\ ~fail => wrote
       /\ Stage("research", "research_data", fail,
                Get(research_handle(out.extraction_data, search, cache),
                    "data", NoDict),
                NoDict)
       /\ cache' =
            IF wrote
              THEN cache_after(Get(out.extraction_data, "company_name",
                                   "Unknown"), search, cache)
              ELSE cache
  /\ UNCHANGED kb

\* what a read of the Pattern agent or the Learner leaves alone
kb_io == <<file, SCHEMA, pc, arg, data, res, before, hit, nops, payload,
          web>>

\* 4) pattern_agent.py line 42: get_scam_patterns()
pattern ==
  /\ step = "pattern"
  /\ \E rf \in BOOLEAN :
       /\ IOFails(rf)
       /\ faults' = IF rf THEN faults + 1 ELSE faults
       /\ out' = [out EXCEPT !.scam_patterns =
                    load_toon(file[SCAM_FILE], SCHEMA[RunProc], rf)]
  /\ step' = NextStep("pattern")
  /\ UNCHANGED <<kb_io, cache>>

\* 4) pattern_agent.py lines 43-87 and core.py lines 81-85
pattern_positive ==
  /\ \E fail \in BOOLEAN, rf \in BOOLEAN :
       /\ IOFails(rf)
       /\ faults' = IF rf THEN faults + 1 ELSE faults
       /\ Stage("pattern_positive", "pat", fail,
                pattern_handle(out.text, out.scam_patterns,
                    load_toon(file[POSITIVE_FILE], SCHEMA[RunProc], rf)),
                [data |-> NoDict])
  /\ UNCHANGED <<kb_io, cache>>

\* 5) lines 88-92
salary(risk) ==
  /\ \E fail \in BOOLEAN :
       Stage("salary", "sal", fail, salary_handle(risk), [data |-> NoDict])
  /\ UNCHANGED <<kb, cache>>

\* toon_learning_agent.py: what the .get calls of _propose_update and of
\* the functions it calls read from the extraction and the research
learner_extraction(e) ==
  [fees |-> Get(e, "fees", <<>>),
   red_flags |-> Get(e, "red_flags", <<>>),
   behaviors |-> Get(e, "behaviors", <<>>)]

learner_research(r) ==
  [scam_found |-> Get(Get(r, "scam_reports", NoDict), "found", FALSE),
   trust_assessment |-> Get(r, "trust_assessment", "unknown"),
   online_presence |->
     Get(Get(r, "company_verification", NoDict), "online_presence", "none"),
   sources |-> Get(Get(r, "company_verification", NoDict), "sources", <<>>),
   suspicious_domains |->
     Get(Get(r, "email_verification", NoDict), "suspicious_domains", <<>>),
   professional_emails |->
     Get(Get(r, "email_verification", NoDict), "professional_emails", <<>>),
   trusted |-> Get(Get(r, "domain_analysis", NoDict), "trusted", <<>>)]

\* 6) lines 95-108: action "propose_update"; the knowledge base is read
\* only for a likely scam
toon_learning ==
  /\ \E fail \in BOOLEAN, rf \in BOOLEAN :
       /\ IOFails(rf)
       /\ rf => is_likely_scam(learner_extraction(out.extraction_data),
                               learner_research(out.research_data))
       /\ faults' = IF rf THEN faults + 1 ELSE faults
       /\ Stage("toon_learning", "toon_proposal", fail,
                proposal_of(learner_extraction(out.extraction_data),
                            learner_research(out.research_data),
                            Learner_load_toon(file[SCAM_FILE],
                                file[POSITIVE_FILE], rf, FALSE)),
                NoDict)
  /\ UNCHANGED <<kb_io, cache>>

\* lines 111-118
decision_payload(o) ==
  [clean_text |-> o.text,
   extraction |-> o.extraction_data,
   research |-> o.research_data,
   pattern_out |-> Get(o.pat, "data", NoDict),
   salary_out |-> Get(o.sal, "data", NoDict),
   toon_proposal |-> o.toon_proposal]

\* 7) lines 120-124; DecisionAgent.handle has no statement that raises on
\* dicts of these shapes
decision ==
  /\ Stage("decision", "dec", FALSE,
           DecisionAgent_handle(decision_payload(out)), NoDict)
  /\ UNCHANGED <<kb, cache>>

\* lines 149-158: no verdict string contains "FAKE" or "SUSPICIOUS"
verdict_risk_score_low(verdict) ==
  IF In("FAKE", verdict) THEN 90
  ELSE IF In("SUSPICIOUS", verdict) THEN 60
  ELSE 10 - 1

verdict_risk_score(verdict) ==
  IF In("FAKE", verdict) THEN 90
  ELSE IF In("SUSPICIOUS", verdict) THEN 60
  ELSE 10

\* lines 164-176: the document and category the auto-learning adds the
\* text to; short says that the text has fewer than 50 characters and holds
\* an '@' or a '.'
auto_learning(risk, short) ==
  IF risk > 90 THEN (IF short THEN <<"scam", "fake_domains">> ELSE <<>>)
  ELSE IF risk < 10
    THEN (IF short THEN <<"positive", "verified_domains">> ELSE <<>>)
  ELSE <<>>

\* toon_manager.update_pattern(file_type, key, text) called at line 169 or
\* 176 and run to its end: the documents and the process's SCHEMA after it
learned(files, schema, target) ==
  IF target = <<>> THEN [file |-> files, SCHEMA |-> schema]
  ELSE LET path == PathOf(target[1])
           key == target[2]
           d == load_toon(files[path], schema, FALSE)
           appended == Append(Lookup(d, key), "clean_input")
       IN IF Present("clean_input", Lookup(d, key))
            THEN [file |-> files, SCHEMA |-> schema]
            ELSE [file |-> [files EXCEPT ![path] =
                              WellFormed(Store(d, key, appended))],
                  SCHEMA |-> IF key \in Loaded(files[path], FALSE)
                               THEN schema
                               ELSE Store(schema, key, appended)]

\* lines 126-180: the report, the history row and the auto-learning
report ==
  /\ step = "report"
  /\ \E short \in BOOLEAN :
       LET decision_data == Get(out.dec, "data", NoDict)
           verdict == Get(decision_data, "result", "UNKNOWN")
           after == learned(file, SCHEMA[RunProc],
                            auto_learning(verdict_risk_score(verdict), short))
       IN /\ out' = [out EXCEPT
               !.report = [trace |->
                             [pattern_agent |-> Get(out.pat, "data", NoDict),
                              salary_agent |-> Get(out.sal, "data", NoDict),
                              toon_proposal |-> out.toon_proposal],
                           decision |-> decision_data,
                           extraction |-> out.extraction_data,
                           research |-> out.research_data],
               !.saved = [risk_score |-> verdict_risk_score(verdict),
                          verdict |-> verdict],
               !.have = @ \cup {"report"}]
          /\ file' = after.file
          /\ SCHEMA' = [SCHEMA EXCEPT ![RunProc] = after.SCHEMA]
  /\ step' = NextStep("report")
  /\ UNCHANGED <<pc, arg, data, res, before, hit, nops, faults, payload,
                 cache, web>>

(* ----------------------- the pipeline run ------------------------------ *)
\* submitted texts: the known phrases a text contains
Texts == SUBSET {"kindly", "offer letter"}

\* what the regular expressions of the Extraction agent find in a text
Parses ==
  {[company_name |-> "Unknown", emails |-> <<>>, domains |-> <<>>,
    salary |-> [mentioned |-> FALSE], fees |-> <<>>, tags |-> <<>>],
   [company_name |-> "Acme", emails |-> << <<"hr", "acme.com">> >>,
    domains |-> <<"acme.com">>,
    salary |-> [mentioned |-> TRUE, amount |-> 20000, period |-> "month"],
    fees |-> <<>>, tags |-> <<>>],
   [company_name |-> "Acme", emails |-> << <<"jobs", "gmail.com">> >>,
    domains |-> <<"gmail.com", "jobs.cash">>,
    salary |-> [mentioned |-> TRUE, amount |-> 3000, period |-> "month"],
    fees |-> <<[amount |-> 500, type |-> "registration_fee"]>>,
    tags |-> <<"no interview mentioned">>]}

\* what the search library does during one call of the Research agent
Searches ==
  [available : BOOLEAN, failed : BOOLEAN, hits : {0, 3, 6},
   scam_hits : {0, 2}]

SearchesOfRun ==
  {[available |-> FALSE, failed |-> FALSE, hits |-> 0, scam_hits |-> 0],
   [available |-> TRUE, failed |-> FALSE, hits |-> 3, scam_hits |-> 0],
   [available |-> TRUE, failed |-> FALSE, hits |-> 6, scam_hits |-> 2]}

InitRun ==
  /\ InitKB
  /\ payload = NoPayload
  /\ cache = NoDict
  /\ step = "preprocess"
  /\ out \in {[NoOut EXCEPT !.text = t] : t \in Texts}

NextRun ==
  \/ preprocess
  \/ \E parsed \in Parses : extraction(parsed)
  \/ \E search \in SearchesOfRun : research(search)
  \/ pattern
  \/ pattern_positive
  \/ \E risk \in SalaryRisks : salary(risk)
  \/ toon_learning
  \/ decision
  \/ report

\* run_full_analysis is one synchronous call: a statement that can run does
SpecRun == InitRun /\ [][NextRun]_vars /\ WF_vars(NextRun)

(* ------------------- the Decision agent on its own --------------------- *)
FlagLists == {SubSeq(red_flag_keywords, 1, n) : n \in 0..MaxFlags}

BehaviorLists ==
  {SubSeq(<<"no interview mentioned", "vague job description",
            "pressure to act fast", "upfront payment required">>, 1, n) :
     n \in 0..MaxBehaviors}

\* extraction_data, research_data, pat and sal at statement 7): a stage's
\* full reply or its substitute
ExtractionsAtJoin ==
  {NoDict} \cup
  [red_flags : FlagLists,
   fees : {<<>>, <<[amount |-> 500, type |-> "deposit"]>>},
   behaviors : BehaviorLists]

ResearchesAtJoin ==
  {NoDict} \cup
  [trust_assessment : {"high_trust", "moderate_trust", "low_trust",
                       "high_risk", "pending"},
   scam_reports : [found : BOOLEAN],
   email_verification :
     [personal_emails : {<<>>, << <<"jobs", "gmail.com">> >>}]]

PatternsAtJoin ==
  {[data |-> NoDict]} \cup
  [status : {"ok"},
   data : [scam_matches : {NoDict, [suspicious_keywords |-> <<"kindly">>]},
           positive_matches :
             {NoDict, [legitimate_keywords |-> <<"offer letter">>]}]]

SalariesAtJoin ==
  {[data |-> NoDict]} \cup {salary_handle(risk) : risk \in SalaryRisks}

InitDecide ==
  /\ InitKB
  /\ payload = NoPayload
  /\ cache = NoDict
  /\ step = "decision"
  /\ out \in {[NoOut EXCEPT
                 !.have = {"text", "extraction_data", "research_data",
                           "pat", "sal", "toon_proposal"},
                 !.extraction_data = e, !.research_data = r,
                 !.pat = pt, !.sal = sl] :
              e \in ExtractionsAtJoin, r \in ResearchesAtJoin,
              pt \in PatternsAtJoin, sl \in SalariesAtJoin}

NextDecide == decision \/ report

SpecDecide == InitDecide /\ [][NextDecide]_vars

(* ------------------- the Research agent on its own --------------------- *)
EmailLists ==
  {<<>>, << <<"hr", "acme.com">> >>, << <<"jobs", "gmail.com">> >>,
   << <<"hr", "jobs.cash">> >>,
   << <<"hr", "acme.com">>, <<"jobs", "gmail.com">> >>}

\* amounts around the limits of _verify_salary, per month and per year
Salaries ==
  {[mentioned |-> FALSE]} \cup
  [mentioned : {TRUE},
   amount : {3000, 4999, 5000, 50000, 50001, 100000, 100001,
             59999, 60000, 600000, 600001, 1200000, 1200001},
   period : {"month", "year"}]

\* extraction_data at statement 3)
ExtractionsForResearch ==
  {NoDict} \cup
  {[company_name |-> c, emails |-> em,
    domains |-> EmailDomains(em) \o urls, salary |-> sl] :
     c \in {"Unknown", "Acme", "Google"}, em \in EmailLists,
     urls \in {<<>>, <<"google.com">>}, sl \in Salaries}

InitResearch ==
  /\ InitKB
  /\ payload = NoPayload
  /\ cache = NoDict
  /\ step = "research"
  /\ out \in {[NoOut EXCEPT !.have = {"text", "extraction_data"},
                            !.extraction_data = e] :
              e \in ExtractionsForResearch}

NextResearch == \E search \in Searches : research(search)

SpecResearch == InitResearch /\ [][NextResearch]_vars

(* ------------------------------ claims --------------------------------- *)
\* the strings document f holds under category k
Held(f, k) ==
  IF file[f].ok /\ k \in DOMAIN file[f].d THEN Range(file[f].d[k]) ELSE {}

AllIdle == \A p \in Procs : pc[p] = "idle"

Alone(p) == \A q \in Procs \ {p} : arg[q] = NoArg /\ pc[q] = "idle"

AppliedOk(p) ==
  /\ pc[p] = "idle"
  /\ res[p] = [op |-> "apply_update", status |-> "success"]

\* C1: when two runs (or two update_pattern callers) work on a document at
\* the same time, each adding its own new string, both strings are in the
\* document once both have returned: no update is lost.
CxC1 ==
  (faults = 0 /\ AllIdle) =>
    \A p \in Procs :
      /\ AppliedOk(p) =>
           Range(arg[p].pr.new_scam_keywords)
             \subseteq Held(SCAM_FILE, "suspicious_keywords")
      /\ res[p] = [op |-> "update_pattern", status |-> "saved"] =>
           arg[p].value \in Held(arg[p].path, arg[p].key)

\* C2: an apply_update that is struck by an I/O error returns a failure
\* status and leaves both documents exactly as they were when it was called.
CxC2 ==
  \A p \in Procs :
    (pc[p] = "idle" /\ res[p].op = "apply_update" /\ hit[p] /\ Alone(p)) =>
      /\ res[p].status = "error"
      /\ file = before[p]

\* C3: with no I/O error anywhere, a load that runs while another process
\* writes reads a committed document: it never falls back to defaults
\* because it found the file empty or cut off.
CxC3 ==
  faults = 0 =>
    \A p \in Procs :
      /\ res[p].op = "get_patterns" => res[p].readOk
      /\ res[p].op = "load" => res[p].status = "success"

\* C4: applying a should_apply = true proposal twice in a row leaves the
\* documents as one application leaves them, whatever the documents were;
\* and a run of apply_update that nothing disturbs does what ApplyOnce says.
ThmC4 ==
  /\ \A pr \in Proposals :
       ShouldApply(pr) =>
         ApplyOnce(ApplyOnce(file, pr), pr) = ApplyOnce(file, pr)
  /\ \A p \in Procs :
       (AppliedOk(p) /\ ~hit[p] /\ Alone(p)) =>
         file = ApplyOnce(before[p], arg[p].pr)

WitC4 ==
  \E p \in Procs :
    /\ AppliedOk(p) /\ ~hit[p] /\ Alone(p)
    /\ file # before[p]
    /\ file = ApplyOnce(before[p], arg[p].pr)
    /\ ApplyOnce(file, arg[p].pr) = file

\* C5: apply_update of a proposal whose should_apply is false or absent
\* returns "skipped" at once: no file, no default list changes, and no load
\* or save step follows.
ThmC5 ==
  [][\A p \in Procs, pr \in Proposals :
       (apply_update(p, pr) /\ pr.should_apply \in {"false", "absent"}) =>
         /\ res'[p] = [op |-> "apply_update", status |-> "skipped"]
         /\ pc'[p] = "idle"
         /\ file' = file
         /\ SCHEMA' = SCHEMA]_vars

WitC5 ==
  \E p \in Procs :
    /\ res[p] = [op |-> "apply_update", status |-> "skipped"]
    /\ arg[p].op = "apply_update"
    /\ arg[p].pr.should_apply = "absent"
    /\ arg[p].pr.new_scam_keywords # <<>>

\* C7: no category list of a persisted document holds a string twice.
ThmC7 ==
  \A f \in Paths : \A k \in DOMAIN file[f].d : NoDup(file[f].d[k])

WitC7 ==
  /\ \E p \in Procs :
       /\ AppliedOk(p)
       /\ arg[p].pr.new_scam_keywords = <<"urgent", "kindly", "urgent">>
  /\ \E p \in Procs :
       /\ res[p] = [op |-> "update_pattern", status |-> "saved"]
       /\ arg[p].key = "fake_domains" /\ arg[p].value = "bonus"
       /\ arg[p].path = SCAM_FILE
  /\ file[SCAM_FILE].ok
  /\ "bonus" \in Held(SCAM_FILE, "fake_domains")
  /\ file[SCAM_FILE].d["suspicious_keywords"] = <<"kindly", "urgent">>

\* C8: an update whose category is not one of the five schema categories
\* changes no document, and no document ever holds another category.
\* (A request is started by an idle process, counted in nops and recorded
\* in arg: only such steps can be an update_pattern or save_toon call.)
ThmC8 ==
  /\ [](\A f \in Paths : DOMAIN file[f].d \subseteq SchemaKeys)
  /\ [][\A p \in Procs :
          (pc[p] = "idle" /\ nops' # nops
             /\ arg'[p].op \in {"update_pattern", "save_toon"}) =>
            \A k \in (UpdateKeys \cup {""}) \
                       {"legitimate_keywords", "suspicious_keywords",
                        "verified_domains", "fake_domains", "behaviors"} :
              \A ft \in FileTypes \cup {""}, v \in Val \cup {""} :
                (\/ save_toon(p, ft, k, v)
                 \/ k # "" /\ ft # "" /\ v # ""
                      /\ update_pattern(p, ft, k, v)) =>
                  /\ file' = file
                  /\ SCHEMA' = SCHEMA
                  /\ pc'[p] = "idle"]_vars

WitC8 ==
  \E p \in Procs :
    /\ res[p] = [op |-> "update_pattern", status |-> "rejected"]
    /\ arg[p].op = "update_pattern"
    /\ arg[p].key = "admin_notes"
    /\ nops = MaxOps

\* C9: a load returns the five schema categories, and a category the file
\* does not supply (or every category, when the file cannot be read) comes
\* back as the empty list, whatever was appended before.
CxC9 ==
  \A p \in Procs : \A f \in Paths :
    pc[p] = "idle" =>
      LET d == load_toon(file[f], SCHEMA[p], FALSE)
      IN /\ DOMAIN d = SchemaKeys
         /\ \A k \in SchemaKeys \ Loaded(file[f], FALSE) : d[k] = <<>>

\* C10: when a read fails, the Learner's load returns the schema defaults:
\* both snapshots hold the five categories, each empty.
CxC10 ==
  \A p \in Procs :
    (res[p].op = "load" /\ res[p].status = "error") =>
      /\ DOMAIN res[p].scam = SchemaKeys
      /\ DOMAIN res[p].positive = SchemaKeys
      /\ \A k \in SchemaKeys : res[p].scam[k] = <<>> /\ res[p].positive[k] = <<>>

\* C6: a proposal of propose_update has should_apply only with confidence
\* >= 0.7 and some candidate list non-empty; at confidence 0.65 it has not,
\* even with new scam keywords.
ThmC6 ==
  \A p \in Procs :
    res[p].op = "propose_update" =>
      LET pr == res[p].data
      IN /\ pr.should_apply = "true" =>
              /\ pr.confidence >= 70
              /\ \/ pr.new_scam_keywords # <<>>
                 \/ pr.new_scam_domains # <<>>
                 \/ pr.new_scam_behaviors # <<>>
                 \/ pr.new_safe_keywords # <<>>
                 \/ pr.new_safe_domains # <<>>
         /\ pr.confidence = 65 => pr.should_apply = "false"

WitC6 ==
  \E p \in Procs :
    /\ res[p].op = "propose_update"
    /\ res[p].data.confidence = 65
    /\ res[p].data.new_scam_keywords # <<>>
    /\ res[p].data.should_apply = "false"

(* ----------------- claims on the Decision agent ------------------------ *)
\* the Decision agent of the run has replied
Decided == "dec" \in out.have

\* a dict without entries, and the replies a failed stage is replaced by
IsEmpty(d) == DOMAIN d = {}
NoData_of(reply) == IsEmpty(Get(reply, "data", NoDict))

\* the parts of the Decision agent's input, read off the run's locals
FlagsIn == Get(out.extraction_data, "red_flags", <<>>)
FeesIn == Get(out.extraction_data, "fees", <<>>)
BehaviorsIn == Get(out.extraction_data, "behaviors", <<>>)
TrustIn == Get(out.research_data, "trust_assessment", "unknown")
ScamFoundIn ==
  Get(Get(out.research_data, "scam_reports", NoDict), "found", FALSE)
PersonalIn ==
  Get(Get(out.research_data, "email_verification", NoDict),
      "personal_emails", <<>>)
ScamMatchIn ==
  ~IsEmpty(Get(Get(out.pat, "data", NoDict), "scam_matches", NoDict))
PositiveMatchIn ==
  ~IsEmpty(Get(Get(out.pat, "data", NoDict), "positive_matches", NoDict))
SalaryRiskIn == Get(Get(out.sal, "data", NoDict), "combined_risk", "none")

ScoreOut == out.dec.data.internal_risk_score
CategoryOut == out.dec.data.result

\* C11: when all four upstream results are the empty substitutes, the
\* Decision agent replies with risk score 0 and category "Looks Safe".
ThmC11 ==
  (/\ Decided
   /\ IsEmpty(out.extraction_data) /\ IsEmpty(out.research_data)
   /\ NoData_of(out.pat) /\ NoData_of(out.sal)) =>
    /\ out.dec.status = "ok"
    /\ ScoreOut = 0
    /\ CategoryOut = "Looks Safe"

WitC11 ==
  /\ step = "returned"
  /\ IsEmpty(out.extraction_data) /\ IsEmpty(out.research_data)
  /\ NoData_of(out.pat) /\ NoData_of(out.sal)
  /\ out.report.decision.internal_risk_score = 0
  /\ out.report.decision.result = "Looks Safe"

\* no fee, red flag or behavior, and a reputation that adds nothing
NoSignals ==
  /\ FlagsIn = <<>> /\ FeesIn = <<>> /\ BehaviorsIn = <<>>
  /\ TrustIn \notin {"high_risk", "low_trust", "high_trust"}
  /\ ~ScamFoundIn
  /\ PersonalIn = <<>>

\* C12, as claimed: no fee, red flag or behavior and a trust-neutral
\* reputation give risk score 0 and "Looks Safe", whatever the pattern
\* matches and the salary risk are.
CxC12 ==
  (Decided /\ NoSignals) => (ScoreOut = 0 /\ CategoryOut = "Looks Safe")

\* C12, amended: with no fee, red flag or behavior and a trust-neutral
\* reputation the risk score is 5 for a scam pattern match, minus 3 for a
\* positive one, plus 4 / 2 for salary risk HIGH / MEDIUM; it is 0 with
\* "Looks Safe" when no pattern matched and the salary risk is neither.
ThmC12 ==
  (Decided /\ NoSignals) =>
    /\ ScoreOut = (IF ScamMatchIn THEN 5 ELSE 0)
                  - (IF PositiveMatchIn THEN 3 ELSE 0)
                  + (CASE SalaryRiskIn = "HIGH" -> 4
                       [] SalaryRiskIn = "MEDIUM" -> 2
                       [] OTHER -> 0)
    /\ (~ScamMatchIn /\ ~PositiveMatchIn
        /\ SalaryRiskIn \notin {"HIGH", "MEDIUM"}) =>
         (ScoreOut = 0 /\ CategoryOut = "Looks Safe")

WitC12 ==
  /\ step = "returned" /\ NoSignals
  /\ ~IsEmpty(out.extraction_data) /\ ~IsEmpty(out.research_data)
  /\ TrustIn = "moderate_trust"
  /\ ~ScamMatchIn /\ ~PositiveMatchIn /\ SalaryRiskIn = "SAFE"
  /\ ScoreOut = 0 /\ CategoryOut = "Looks Safe"

\* C13: the risk score is the stated sum of the weighted signals.
ThmC13 ==
  Decided =>
    ScoreOut =
      2 * Len(FlagsIn)
      + (IF FeesIn # <<>> THEN 5 ELSE 0)
      + Len(BehaviorsIn)
      + (CASE TrustIn = "high_risk" -> 10
           [] TrustIn = "low_trust" -> 5
           [] TrustIn = "high_trust" -> 0 - 5
           [] OTHER -> 0)
      + (IF ScamFoundIn THEN 8 ELSE 0)
      + (IF PersonalIn # <<>> THEN 3 ELSE 0)
      + (IF ScamMatchIn THEN 5 ELSE 0)
      - (IF PositiveMatchIn THEN 3 ELSE 0)
      + (CASE SalaryRiskIn = "HIGH" -> 4
           [] SalaryRiskIn = "MEDIUM" -> 2
           [] OTHER -> 0)

WitC13 ==
  /\ step = "returned"
  /\ Len(FlagsIn) = 2 /\ FeesIn # <<>> /\ Len(BehaviorsIn) = 1
  /\ TrustIn = "low_trust" /\ ScamFoundIn /\ PersonalIn # <<>>
  /\ ScamMatchIn /\ PositiveMatchIn /\ SalaryRiskIn = "MEDIUM"
  /\ ScoreOut = 30

\* C14: the category is decided by the score alone: 10 and above warn,
\* 2 and below (negative scores too) look safe, 3 to 9 need verification.
ThmC14 ==
  Decided =>
    /\ CategoryOut \in {"Contains Warning Signs", "Looks Safe",
                        "Needs Verification"}
    /\ CategoryOut = "Contains Warning Signs" <=> ScoreOut >= 10
    /\ CategoryOut = "Looks Safe" <=> ScoreOut <= 2
    /\ CategoryOut = "Needs Verification" <=> ScoreOut \in 3..9

WitC14 ==
  /\ step = "returned"
  /\ ScoreOut = 10
  /\ CategoryOut = "Contains Warning Signs"

\* the input of the Decision agent with the red flags replaced
WithFlags(flags) ==
  [decision_payload(out) EXCEPT
     !.extraction = [red_flags |-> flags] @@ out.extraction_data]

Rank(c) ==
  CASE c = "Looks Safe" -> 0
    [] c = "Needs Verification" -> 1
    [] c = "Contains Warning Signs" -> 2

\* C15: with everything else equal, a red-flag list that is no shorter
\* gives a risk score that is no lower and a category that is no safer.
ThmC15 ==
  Decided =>
    \A flags \in FlagLists :
      Len(FlagsIn) <= Len(flags) =>
        LET more == DecisionAgent_handle(WithFlags(flags)).data
        IN /\ ScoreOut <= more.internal_risk_score
           /\ Rank(CategoryOut) <= Rank(more.result)

WitC15 ==
  /\ step = "returned"
  /\ Len(FlagsIn) = 1 /\ ScoreOut = 9
  /\ CategoryOut = "Needs Verification"
  /\ DecisionAgent_handle(WithFlags(SubSeq(red_flag_keywords, 1, 2)))
       .data.result = "Contains Warning Signs"

(* ------------------- claims on propose_update -------------------------- *)
\* C16: the confidence of a proposal lies between 0 and 1 (0 and 100
\* hundredths); strong presence, scam reports, four or more sources and
\* high_risk, 1.2 before the cap, give exactly 1.
ThmC16 ==
  \A p \in Procs :
    res[p].op = "propose_update" =>
      /\ res[p].data.confidence \in 0..100
      /\ (/\ payload.research.online_presence = "strong"
          /\ payload.research.scam_found
          /\ Len(payload.research.sources) >= 4
          /\ payload.research.trust_assessment = "high_risk") =>
           res[p].data.confidence = 100

WitC16 ==
  \E p \in Procs :
    /\ res[p].op = "propose_update"
    /\ payload.research.online_presence = "strong"
    /\ payload.research.scam_found
    /\ Len(payload.research.sources) = 4
    /\ payload.research.trust_assessment = "high_risk"
    /\ res[p].data.confidence = 100

(* ----------------- claims on the Research agent ------------------------ *)
\* the Research agent of the run has replied
Researched == "research_data" \in out.have /\ "research" \notin out.failed

PresenceIn == out.research_data.company_verification.online_presence
RealisticIn == out.research_data.salary_verification.realistic

\* the trust score as the sum of the stated terms
StatedTrustScore ==
  (CASE PresenceIn = "strong" -> 3
     [] PresenceIn = "moderate" -> 1
     [] PresenceIn = "weak" -> 0 - 1
     [] OTHER -> 0)
  + (IF out.research_data.email_verification.professional_emails # <<>>
       THEN 2 ELSE 0)
  + (IF out.research_data.email_verification.personal_emails # <<>>
       THEN 0 - 1 ELSE 0)
  + (IF out.research_data.email_verification.domain_matches # <<>>
       THEN 2 ELSE 0)
  + (IF out.research_data.scam_reports.found THEN 0 - 5 ELSE 0)
  + (IF out.research_data.domain_analysis.trusted # <<>> THEN 3 ELSE 0)
  + (IF out.research_data.domain_analysis.suspicious # <<>>
       THEN 0 - 2 ELSE 0)
  + (CASE RealisticIn = "realistic" -> 1
       [] RealisticIn \in {"suspiciously_low", "suspiciously_high"} -> 0 - 2
       [] OTHER -> 0)

\* C17: the trust assessment is the stated score of the research
\* sub-results, mapped at 5, 2 and 0; strong presence with professional
\* e-mails and matching domains and nothing else is 7, high_trust.
ThmC17 ==
  Researched =>
    /\ out.research_data.trust_assessment =
         (IF StatedTrustScore >= 5 THEN "high_trust"
          ELSE IF StatedTrustScore >= 2 THEN "moderate_trust"
          ELSE IF StatedTrustScore >= 0 THEN "low_trust"
          ELSE "high_risk")
    /\ (/\ PresenceIn = "strong"
        /\ out.research_data.email_verification.professional_emails # <<>>
        /\ out.research_data.email_verification.domain_matches # <<>>
        /\ out.research_data.email_verification.personal_emails = <<>>
        /\ ~out.research_data.scam_reports.found
        /\ out.research_data.domain_analysis.trusted = <<>>
        /\ out.research_data.domain_analysis.suspicious = <<>>
        /\ RealisticIn = "unknown") =>
         (StatedTrustScore = 7
          /\ out.research_data.trust_assessment = "high_trust")

WitC17 ==
  /\ Researched
  /\ PresenceIn = "strong"
  /\ out.research_data.email_verification.professional_emails # <<>>
  /\ out.research_data.email_verification.domain_matches # <<>>
  /\ out.research_data.email_verification.personal_emails = <<>>
  /\ ~out.research_data.scam_reports.found
  /\ out.research_data.domain_analysis.trusted = <<>>
  /\ out.research_data.domain_analysis.suspicious = <<>>
  /\ RealisticIn = "unknown"
  /\ out.research_data.trust_assessment = "high_trust"

\* the salary the Extraction agent handed over
SalaryIn == Get(out.extraction_data, "salary", NoDict)

\* the monthly equivalent is below / above a limit: the amount itself per
\* month, a twelfth of it per year
MonthlyBelow(limit) ==
  IF SalaryIn.period = "month" THEN SalaryIn.amount < limit
                               ELSE SalaryIn.amount < 12 * limit
MonthlyAbove(limit) ==
  IF SalaryIn.period = "month" THEN SalaryIn.amount > limit
                               ELSE SalaryIn.amount > 12 * limit

\* C18: the monthly equivalent is suspiciously_low below 5000,
\* suspiciously_high above 100000, verify_required above 50000 and realistic
\* from 5000 to 50000; no salary mentioned gives unknown; 3000 a month is
\* suspiciously_low.
ThmC18 ==
  Researched =>
    /\ ~Get(SalaryIn, "mentioned", FALSE) => RealisticIn = "unknown"
    /\ Get(SalaryIn, "mentioned", FALSE) =>
         /\ MonthlyBelow(5000) <=> RealisticIn = "suspiciously_low"
         /\ MonthlyAbove(100000) <=> RealisticIn = "suspiciously_high"
         /\ (MonthlyAbove(50000) /\ ~MonthlyAbove(100000))
              <=> RealisticIn = "verify_required"
         /\ (~MonthlyBelow(5000) /\ ~MonthlyAbove(50000))
              <=> RealisticIn = "realistic"
         /\ (SalaryIn.amount = 3000 /\ SalaryIn.period = "month") =>
              RealisticIn = "suspiciously_low"

WitC18 ==
  /\ Researched
  /\ Get(SalaryIn, "mentioned", FALSE)
  /\ SalaryIn.amount = 3000 /\ SalaryIn.period = "month"
  /\ RealisticIn = "suspiciously_low"

(* ------------------- claims on the pipeline run ------------------------ *)
Upstream == {"extraction_data", "research_data", "pat", "sal"}

Cleaned == step # "preprocess" /\ "preprocess" \notin out.failed

\* C20: a run whose cleaning step succeeds returns a report with a
\* decision whichever stages raise: a failed stage leaves its empty
\* substitute, the Decision step starts only when all four upstream
\* results are there, and no failure ends the run early.
ThmC20 ==
  /\ [](Cleaned =>
          /\ "extraction" \in out.failed => IsEmpty(out.extraction_data)
          /\ "research" \in out.failed => IsEmpty(out.research_data)
          /\ "pattern_positive" \in out.failed =>
               out.pat = [data |-> NoDict]
          /\ "salary" \in out.failed => out.sal = [data |-> NoDict]
          /\ "toon_learning" \in out.failed => IsEmpty(out.toon_proposal)
          /\ step = "decision" => Upstream \subseteq out.have
          /\ step = "returned" =>
               /\ "decision" \in DOMAIN out.report
               /\ out.report.decision.result \in
                    {"Contains Warning Signs", "Looks Safe",
                     "Needs Verification"})
  /\ (step = "extraction") ~> (step = "returned")

WitC20 ==
  /\ step = "returned"
  /\ out.failed = {"extraction", "research", "pattern_positive", "salary",
                   "toon_learning"}
  /\ out.report.decision.result = "Looks Safe"
  /\ out.report.decision.internal_risk_score = 0

(* ------------- claims on the Research agent's collaborators ------------ *)
\* the company the Research agent is asked about
CompanyIn == Get(out.extraction_data, "company_name", "Unknown")

\* C21: when the search library is installed but raises during the call,
\* a reply of the Research agent about a named company carries the mock
\* judgment as its company verification: strong for a well-known name, weak
\* otherwise, as when the library is not installed.
CxC21 ==
  [][\A search \in Searches :
       (/\ search.available /\ search.failed
        /\ CompanyIn # "Unknown"
        /\ research(search)
        /\ "research" \notin out'.failed) =>
         out'.research_data.company_verification
           = mock_company_verification(CompanyIn)]_vars

(* ------------- the Pattern agent next to the writers ------------------- *)
\* texts handed to the Pattern agent: the strings of Val they contain
MatchTexts == {{"bonus"}, Val}

\* one call of PatternMatchingAgent.handle in process RunProc, at any
\* moment of the update_pattern and apply_update operations of the processes
InitMatch ==
  /\ InitKB
  /\ payload = NoPayload
  /\ cache = NoDict
  /\ step = "pattern"
  /\ out \in {[NoOut EXCEPT !.have = {"text"}, !.text = t] : t \in MatchTexts}

NextMatch ==
  \/ \E p \in Procs :
       \/ \E ft \in {"scam", "positive"}, v \in Val :
            update_pattern(p, ft, "fake_domains", v)
       \/ up_open(p)
       \/ up_write(p)
       \/ \E pr \in Proposals : apply_update(p, pr)
       \/ ap_load_pos(p)
       \/ ap_open_scam(p)
       \/ ap_write_scam(p)
       \/ ap_open_pos(p)
       \/ ap_write_pos(p)
  \/ pattern
  \/ pattern_positive

SpecMatch == InitMatch /\ [][NextMatch]_vars

\* process q has returned from an update_pattern that stored value k under
\* category c of document f
Stored(q, f, c, k) ==
  /\ pc[q] = "idle"
  /\ res[q] = [op |-> "update_pattern", status |-> "saved"]
  /\ arg[q].path = f /\ arg[q].key = c /\ arg[q].value = k

\* C22: with no I/O error anywhere, a match call that reads the scam
\* document after an update_pattern that added k to a category of it has
\* returned reports k under that category when the text contains k.
CxC22 ==
  [][\A q \in Procs, c \in SchemaKeys, k \in Val :
       (/\ step = "pattern" /\ step' = "pattern_positive"
        /\ faults' = 0
        /\ Stored(q, SCAM_FILE, c, k)
        /\ k \in out.text) =>
         k \in Range(Get(check_matches(out.text, out'.scam_patterns),
                         c, <<>>))]_vars

(* ------------- the Research agent over several runs -------------------- *)
\* extraction_data of the runs of one process
ExtractionsOfRuns ==
  {NoDict} \cup
  {[company_name |-> c, emails |-> em, domains |-> EmailDomains(em),
    salary |-> sl] :
     c \in {"Unknown", "Acme", "Google"},
     em \in {<<>>, << <<"hr", "acme.com">> >>},
     sl \in {[mentioned |-> FALSE],
             [mentioned |-> TRUE, amount |-> 3000, period |-> "month"]}}

\* the locals of a run that is at statement 3)
AtResearch(e) ==
  [NoOut EXCEPT !.have = {"text", "extraction_data"}, !.extraction_data = e]

InitRuns ==
  /\ InitKB
  /\ payload = NoPayload
  /\ cache = NoDict
  /\ step = "research"
  /\ out \in {AtResearch(e) : e \in ExtractionsOfRuns}

\* the next call of run_full_analysis in the same process comes to its
\* statement 3): research_agent is created once, its cache stays
run_again(e) ==
  /\ step = "pattern"
  /\ step' = "research"
  /\ out' = AtResearch(e)
  /\ UNCHANGED <<kb, cache>>

NextRuns ==
  \/ \E search \in Searches : research(search)
  \/ \E e \in ExtractionsOfRuns : run_again(e)

SpecRuns == InitRuns /\ [][NextRuns]_vars

\* C23: a call of the Research agent about a company that is in the cache
\* replies with the cached company verification whatever the search would
\* return and leaves the cache as it is, while the e-mail, salary and
\* domain results are those of the call's own extraction; "Unknown" is never
\* a key of the cache.
ThmC23 ==
  /\ []("Unknown" \notin DOMAIN cache)
  /\ [][\A search \in Searches :
          (/\ step = "research"
           /\ CompanyIn \in DOMAIN cache
           /\ research(search)
           /\ "research" \notin out'.failed) =>
            /\ out'.research_data.company_verification = cache[CompanyIn]
            /\ cache' = cache
            /\ out'.research_data.email_verification.emails_found
                 = Len(Get(out.extraction_data, "emails", <<>>))
            /\ out'.research_data.domain_analysis.total_domains
                 = Len(Get(out.extraction_data, "domains", <<>>))
            /\ (out'.research_data.salary_verification.realistic = "unknown")
                 <=> ~Get(Get(out.extraction_data, "salary", NoDict),
                          "mentioned", FALSE)]_vars

\* the search failed when the company was cached and works now: the reply
\* has the cached presence "unknown" next to a scam report found now
WitC23 ==
  /\ Researched
  /\ CompanyIn = "Acme"
  /\ "Acme" \in DOMAIN cache
  /\ out.research_data.company_verification = cache["Acme"]
  /\ PresenceIn = "unknown"
  /\ out.research_data.scam_reports.found
  /\ out.research_data.email_verification.emails_found = 1
  /\ RealisticIn = "suspiciously_low"

(* ----------------- claims on apply_update and propose_update ----------- *)
\* C24: when an apply_update of a should_apply proposal has returned
\* "success", with no I/O error and no other process at work, every string
\* of each of its five candidate lists is in the category of the document
\* the list belongs to.
CxC24 ==
  \A p \in Procs :
    (AppliedOk(p) /\ ~hit[p] /\ Alone(p)) =>
      LET pr == arg[p].pr
      IN /\ Range(pr.new_scam_keywords)
              \subseteq Held(SCAM_FILE, "suspicious_keywords")
         /\ Range(pr.new_scam_domains) \subseteq Held(SCAM_FILE, "fake_domains")
         /\ Range(pr.new_scam_behaviors) \subseteq Held(SCAM_FILE, "behaviors")
         /\ Range(pr.new_safe_keywords)
              \subseteq Held(POSITIVE_FILE, "legitimate_keywords")
         /\ Range(pr.new_safe_domains)
              \subseteq Held(POSITIVE_FILE, "verified_domains")

\* C25: a proposal of propose_update with confidence >= 0.7 and some
\* candidate list non-empty has should_apply true, also when the only
\* non-empty list is new_scam_behaviors.
CxC25 ==
  \A p \in Procs :
    res[p].op = "propose_update" =>
      LET pr == res[p].data
      IN (/\ pr.confidence >= 70
          /\ \/ pr.new_scam_keywords # <<>>
             \/ pr.new_scam_domains # <<>>
             \/ pr.new_scam_behaviors # <<>>
             \/ pr.new_safe_keywords # <<>>
             \/ pr.new_safe_domains # <<>>) =>
           pr.should_apply = "true"

(* ---------------- s_safe/agents/salary_agent.py ------------------------ *)
\* what salary_tool.extract_salary finds in a text: nothing, or the first
\* number (times 1000 with a k), here around the limits of assess_salary
SalaryInfos ==
  {[found |-> FALSE]} \cup
  [found : {TRUE}, value : {299, 300, 999, 1000, 200000, 200001}]

\* salary_tool.assess_salary
assess_salary(value) ==
  [risk |-> IF value < 300 THEN "HIGH"
            ELSE IF value < 1000 THEN "MEDIUM"
            ELSE IF value > 200000 THEN "HIGH"
            ELSE "SAFE"]

\* interview_tool.SUSPICIOUS_PHRASES, shortened, and the ones whose pattern
\* holds "pay" or "registration"
SUSPICIOUS_PHRASES == {"pay.*interview", "registration fee", "whatsapp"}
Escalating == {"pay.*interview", "registration fee"}

\* interview_tool.analyze_interview; matches are the patterns found
analyze_interview(matches) ==
  [matches |-> matches,
   risk |-> IF matches = {} THEN "SAFE"
            ELSE IF matches \cap Escalating # {} THEN "HIGH"
            ELSE "MEDIUM"]

\* SalaryInterviewAgent.handle, lines 25-27
salary_assessment(salary_info) ==
  IF Get(salary_info, "found", FALSE)
    THEN [salary |-> salary_info] @@ assess_salary(salary_info.value)
    ELSE [salary |-> salary_info]

\* SalaryInterviewAgent.handle, lines 30-34
combined_risk_amount_only(assessment, interview) ==
  IF Get(assessment, "risk", "none") = "HIGH" THEN "HIGH"
  ELSE IF Get(assessment, "risk", "none") = "MEDIUM" THEN "MEDIUM"
  ELSE "SAFE"

combined_risk(assessment, interview) ==
  IF interview.risk = "HIGH" \/ Get(assessment, "risk", "none") = "HIGH"
    THEN "HIGH"
  ELSE IF interview.risk = "MEDIUM"
            \/ Get(assessment, "risk", "none") = "MEDIUM"
    THEN "MEDIUM"
  ELSE "SAFE"

\* SalaryInterviewAgent.handle
SalaryInterviewAgent_handle(salary_info, matches) ==
  [status |-> "ok",
   data |-> [salary_assessment |-> salary_assessment(salary_info),
             interview_analysis |-> analyze_interview(matches),
             combined_risk |->
               combined_risk(salary_assessment(salary_info),
                             analyze_interview(matches))]]

\* 5) lines 88-92 of core.py, with the agent's reply computed
salary_interview(salary_info, matches) ==
  /\ \E fail \in BOOLEAN :
       Stage("salary", "sal", fail,
             SalaryInterviewAgent_handle(salary_info, matches),
             [data |-> NoDict])
  /\ UNCHANGED <<kb, cache>>

\* a run at statement 5): extraction, research and pattern results are the
\* substitutes or carry one signal each
InitSalary ==
  /\ InitKB
  /\ payload = NoPayload
  /\ cache = NoDict
  /\ step = "salary"
  /\ out \in {[NoOut EXCEPT
                 !.have = {"text", "extraction_data", "research_data", "pat"},
                 !.extraction_data = e, !.research_data = r, !.pat = pt] :
              e \in {NoDict, [red_flags |-> <<"kindly">>, fees |-> <<>>,
                              behaviors |-> <<>>]},
              r \in {NoDict, [trust_assessment |-> "high_trust"]},
              pt \in PatternsAtJoin}

NextSalary ==
  \/ \E info \in SalaryInfos, matches \in SUBSET SUSPICIOUS_PHRASES :
       salary_interview(info, matches)
  \/ toon_learning
  \/ decision
  \/ report

SpecSalary == InitSalary /\ [][NextSalary]_vars

(* ----------------- claims on the salary contribution ------------------- *)
\* the salary agent of the run has replied
SalaryDone == "sal" \in out.have /\ "salary" \notin out.failed

\* what the salary result adds to the risk score: the score, less the score
\* of the same input without a salary result
SalaryContribution ==
  ScoreOut
  - DecisionAgent_handle([decision_payload(out) EXCEPT !.salary_out = NoDict])
      .data.internal_risk_score

\* the classification of the parsed amount, "none" without an amount
AmountRisk == Get(out.sal.data.salary_assessment, "risk", "none")
InterviewRisk == out.sal.data.interview_analysis.risk

Points(risk) == IF risk = "HIGH" THEN 4 ELSE IF risk = "MEDIUM" THEN 2 ELSE 0

StatedScam ==
  \/ payload.extraction.fees # <<>> /\ Len(payload.extraction.red_flags) > 2
  \/ payload.research.scam_found
  \/ payload.research.trust_assessment = "high_risk"

StatedSafe ==
  /\ ~StatedScam
  /\ payload.research.trust_assessment \in {"high_trust", "moderate_trust"}
  /\ payload.research.online_presence = "strong"

\* C27: a proposal carries scam candidates only for a likely-scam case
\* (fees and more than two red flags, or scam reports, or high_risk), safe
\* candidates only for a likely-safe case (not likely-scam, high or moderate
\* trust, strong presence), and in every other case all five lists are
\* empty and should_apply is false.
ThmC27 ==
  \A p \in Procs :
    res[p].op = "propose_update" =>
      LET pr == res[p].data
      IN /\ StatedScam =>
              /\ pr.new_scam_domains = payload.research.suspicious_domains
              /\ pr.new_scam_behaviors = payload.extraction.behaviors
              /\ Range(pr.new_scam_keywords)
                   \subseteq Range(payload.extraction.red_flags)
              /\ pr.new_safe_keywords = <<>> /\ pr.new_safe_domains = <<>>
         /\ StatedSafe =>
              /\ pr.new_scam_keywords = <<>> /\ pr.new_scam_domains = <<>>
              /\ pr.new_scam_behaviors = <<>>
              /\ pr.new_safe_domains =
                   EmailDomains(payload.research.professional_emails)
                     \o payload.research.trusted
         /\ (~StatedScam /\ ~StatedSafe) =>
              /\ pr.new_scam_keywords = <<>> /\ pr.new_scam_domains = <<>>
              /\ pr.new_scam_behaviors = <<>>
              /\ pr.new_safe_keywords = <<>> /\ pr.new_safe_domains = <<>>
              /\ pr.should_apply = "false"

\* neither: fees with one red flag only, high trust with moderate presence
WitC27 ==
  \E p \in Procs :
    /\ res[p].op = "propose_update"
    /\ ~StatedScam /\ ~StatedSafe
    /\ payload.extraction.fees # <<>>
    /\ payload.extraction.red_flags # <<>>
    /\ payload.research.trust_assessment = "high_trust"
    /\ payload.research.professional_emails # <<>>
    /\ res[p].data.confidence = 55
    /\ res[p].data.new_safe_domains = <<>>
    /\ res[p].data.should_apply = "false"

(* ------------- claims on the run and the knowledge base ---------------- *)
\* C28: no step of a pipeline run changes a document or the defaults, no
\* request to the Learner other than the proposal is made, and the score of
\* the history row is 10 for every verdict, so that neither auto-learning
\* branch is entered.
ThmC28 ==
  /\ [][file' = file /\ SCHEMA' = SCHEMA]_vars
  /\ [](\A p \in Procs : arg[p] = NoArg /\ pc[p] = "idle")
  /\ []("report" \in out.have =>
          /\ out.saved.risk_score = 10
          /\ \A short \in BOOLEAN :
               auto_learning(out.saved.risk_score, short) = <<>>)

WitC28 ==
  /\ step = "returned"
  /\ "report" \in out.have
  /\ out.saved = [risk_score |-> 10, verdict |-> "Contains Warning Signs"]
  /\ "toon_learning" \notin out.failed
  /\ out.toon_proposal.should_apply = "true"
  /\ file[SCAM_FILE] = WellFormed(scam_defaults)
  /\ file[POSITIVE_FILE] = WellFormed(positive_defaults)

\* what init_defaults wrote into document f
Defaults(f) == IF f = SCAM_FILE THEN scam_defaults ELSE positive_defaults

\* C29: with no I/O error anywhere, once every operation has returned each
\* document still has its five categories and every string it was
\* initialized with, whatever apply_update and update_pattern operations ran
\* and however they interleaved.
CxC29 ==
  (AllIdle /\ faults = 0) =>
    \A f \in Paths :
      /\ file[f].ok
      /\ SchemaKeys \subseteq DOMAIN file[f].d
      /\ \A k \in SchemaKeys : Range(Defaults(f)[k]) \subseteq Held(f, k)

(* ------------------- the chat endpoints of main.py --------------------- *)

\* the most chats and the most messages the tables are let grow to
MaxChats == 2
MaxMessages == 4

\* users.id of the registered users: get_current_user returns one of them
\* for a request that carries a valid token, and refuses every other
Users == {1, 2}

\* AnalyzeRequest.message / the message parameter of /analyze_file
Messages == {"", "offer"}

\* a chat_id a request can carry: 0 for none given ("not chat_id" holds for
\* None and for 0 alike), or the id of a row that exists or is still to come
ChatIds == 0 .. MaxChats

\* db.create_chat: the new row gets the next AUTOINCREMENT id, which the
\* caller reads back as cursor.lastrowid = Len(chats) of the result
create_chat(d, user_id, title) ==
  [d EXCEPT !.chats = Append(@, [user_id |-> user_id, title |-> title])]

\* db.get_chat found a row
has_chat(d, chat_id) == chat_id \in DOMAIN d.chats

\* db.get_chat: the row
get_chat(d, chat_id) == d.chats[chat_id]

\* db.update_chat_title
update_chat_title(d, chat_id, title) ==
  IF has_chat(d, chat_id)
  THEN [d EXCEPT !.chats[chat_id].title = title]
  ELSE d

\* db.save_message: the INSERT checks nothing about chat_id, since the
\* connection never turns foreign_keys on; by is no column of the table: it
\* records the current user of the request the row was saved by
save_message(d, chat_id, sender, content, by) ==
  [d EXCEPT !.messages = Append(@, [chat_id |-> chat_id, sender |-> sender,
                                    content |-> content, by |-> by])]

\* db.get_chat_messages
db_get_chat_messages(d, chat_id) ==
  SelectSeq(d.messages, LAMBDA m : m.chat_id = chat_id)

\* db.save_uploaded_file
save_uploaded_file(d) == [d EXCEPT !.uploaded_files = @ + 1]

\* run_full_analysis as the tables see it: core.py line 160 adds one row
\* to analysis_history
run_full_analysis(d) == [d EXCEPT !.analysis_history = @ + 1]

\* what lies below the endpoints: the knowledge base and the run of
\* run_full_analysis, whose steps are the specification SpecRun
below == <<file, SCHEMA, pc, arg, data, res, before, hit, nops, faults, payload,
           step, out, cache>>

\* the tables stay within their bounds
Room(chat_id) ==
  /\ Len(db.messages) + 2 <= MaxMessages
  /\ chat_id = 0 => Len(db.chats) < MaxChats

\* what a request did, next to the status it was answered with
Outcome(endpoint, user, chat_id, status, after) ==
  [endpoint |-> endpoint, user |-> user, chat_id |-> chat_id,
   status |-> status,
   saved |-> Len(after.messages) - Len(db.messages),
   analysed |-> after.analysis_history # db.analysis_history]

\* POST /analyze
analyze_text(user, text, chat_id) ==
  LET made == IF chat_id = 0 THEN create_chat(db, user, text) ELSE db
      id == IF chat_id = 0 THEN Len(made.chats) ELSE chat_id
      said == save_message(made, id, "user", text, user)
      run == run_full_analysis(said)
      answered == save_message(run, id, "agent", "explanation", user)
      titled == IF Len(db_get_chat_messages(answered, id)) <= 2
                THEN update_chat_title(answered, id, text)
                ELSE answered
      status == IF text = "" THEN 400
                ELSE IF ~has_chat(made, id)
                        \/ get_chat(made, id).user_id # user THEN 403
                ELSE 200
      after == CASE status = 400 -> db
                 [] status = 403 -> made
                 [] OTHER -> titled
  IN
  /\ Room(chat_id)
  /\ db' = after
  /\ req' = Outcome("/analyze", user, chat_id, status, after)
  /\ UNCHANGED below

\* POST /analyze_file with one file
analyze_file(user, message, chat_id) ==
  LET filed == save_uploaded_file(db)
      made == IF chat_id = 0 THEN create_chat(filed, user, "File Analysis")
                             ELSE filed
      id == IF chat_id = 0 THEN Len(made.chats) ELSE chat_id
      said == save_message(made, id, "user", "Uploaded files", user)
      run == run_full_analysis(said)
      after == save_message(run, id, "agent", "explanation", user)
  IN
  /\ Room(chat_id)
  /\ db' = after
  /\ req' = Outcome("/analyze_file", user, chat_id, 200, after)
  /\ UNCHANGED below

\* GET /chats/{chat_id}/messages
get_chat_messages(user, chat_id) ==
  LET status == IF ~has_chat(db, chat_id) THEN 404
                ELSE IF get_chat(db, chat_id).user_id # user THEN 403
                ELSE 200
  IN
  /\ req' = [Outcome("/chats/{chat_id}/messages", user, chat_id, status, db)
               EXCEPT !.saved = IF status = 200
                                THEN Len(db_get_chat_messages(db, chat_id))
                                ELSE 0]
  /\ UNCHANGED db
  /\ UNCHANGED below

NextChat ==
  \E user \in Users, chat_id \in ChatIds :
    \/ \E text \in Messages : analyze_text(user, text, chat_id)
    \/ \E message \in Messages : analyze_file(user, message, chat_id)
    \/ chat_id # 0 /\ get_chat_messages(user, chat_id)

SpecChat == Init /\ [][NextChat]_vars

\* the last request went to endpoint and named a chat of another user
NamedAnothers(endpoint) ==
  /\ req.endpoint = endpoint
  /\ has_chat(db, req.chat_id)
  /\ get_chat(db, req.chat_id).user_id # req.user

\* C30: every message stored in a chat was saved by a request whose current
\* user is the chat's owner, and a request to /analyze or /analyze_file that
\* names another user's chat is refused, saves no message and runs no
\* analysis
CxC30 ==
  /\ \A i \in DOMAIN db.messages :
       has_chat(db, db.messages[i].chat_id) =>
         get_chat(db, db.messages[i].chat_id).user_id = db.messages[i].by
  /\ (NamedAnothers("/analyze") \/ NamedAnothers("/analyze_file")) =>
       req.status \in {400, 403} /\ req.saved = 0 /\ ~req.analysed

====
